---- MODULE Spec2Model ----
(***************************************************************************)
(* State-machine model of VotingContract (src/unnamed/part_003): elections, *)
(* positions, candidates, voter registration and the vote ledger.           *)
(*                                                                          *)
(* Every external function of the contract is one action.  A call whose     *)
(* require fails reverts and leaves the whole state as it was: it is a      *)
(* stuttering step, and the action of a function is enabled exactly when    *)
(* all its requires pass.  The revert reason of a call is what its          *)
(* ...Checks operator evaluates to in the state the call is made in.  The   *)
(* free-text arguments (title, description, name, party, manifesto) take     *)
(* part in no condition and are left out.                                   *)
(***************************************************************************)
EXTENDS Integers, Sequences, FiniteSets, TLC

\* ------------------------------------------------------------------ bounds
MaxTime == 2
MaxPositionIds == 2
MaxCandidateIds == 2

\* ------------------------------------------------------------- input sets
ZeroAddress == 0
Deployer == 1
VoterAddrs == {2, 3}
CandidateAddrs == {ZeroAddress, 4}
Addresses == {Deployer} \cup VoterAddrs
AdminCallers == {Deployer, 2}
ElectionIds == {"E1"}
PositionIds == {"P1"}
\* the position ids storage is keyed by; P2 is an input of SpecPositions only
StoredPositionIds == PositionIds \cup {"P2"}
CandidateIds == {"C1", "C2"}
ZeroHash == 0
Hashes == {ZeroHash, 170, 187}
StartTimes == {0, 1}
EndTimes == {1}
MaxVotesInputs == {0, 2}
SeatsInputs == {0, 1}
\* inputs of the access-control specification
GrantAccounts == {2}
AccessCandidateIds == {"C1"}
AccessHashes == {ZeroHash, 170}
\* inputs of the two-position specification
PositionsVoters == {2}

\* ------------------------------------------------------------------ roles
DEFAULT_ADMIN_ROLE == "DEFAULT_ADMIN_ROLE"
ELECTION_ADMIN_ROLE == "ELECTION_ADMIN_ROLE"
VOTER_ROLE == "VOTER_ROLE"
AUDITOR_ROLE == "AUDITOR_ROLE"
Roles == {DEFAULT_ADMIN_ROLE, ELECTION_ADMIN_ROLE, VOTER_ROLE, AUDITOR_ROLE}
GrantableRoles == {ELECTION_ADMIN_ROLE, VOTER_ROLE, AUDITOR_ROLE}

VARIABLES
    now,               \* block.timestamp
    roles,             \* AccessControl: role -> set of holders
    paused,            \* Pausable
    elections,         \* mapping(string => Election), without the nested positions
    positions,         \* elections[e].positions[p]
    candidates,        \* elections[e].positions[p].candidates[c]
    hasVoted,          \* voter => election => position => bool
    votes,             \* mapping(bytes32 => Vote)
    registeredVoters,  \* mapping(address => bool)
    electionExists,    \* mapping(string => bool)
    electionIds,       \* string[]
    voteHashes,        \* bytes32[]
    voteCastLog,       \* the VoteCast events emitted so far
    manager,           \* the browser's BlockchainManager and its calls in flight
    session            \* the browser's ComitiaAPI, localStorage and its calls in flight

vars == <<now, roles, paused, elections, positions, candidates, hasVoted, votes,
          registeredVoters, electionExists, electionIds, voteHashes, voteCastLog,
          manager, session>>

\* the contract storage
storage == <<roles, paused, elections, positions, candidates, hasVoted, votes,
             registeredVoters, electionExists, electionIds, voteHashes, voteCastLog>>

\* ---------------------------------------------------------- revert reasons
OK == "OK"
NotElectionAdmin == "Caller is not an election admin"
NotRegisteredVoter == "Caller is not a registered voter"
ElectionNotFound == "Election does not exist"
VotingNotActive == "Voting is not active"
VotingNotStarted == "Voting has not started"
VotingEnded == "Voting has ended"
AlreadyVoted == "Already voted for this position"
AlreadyRegistered == "Voter already registered"
NotRegistered == "Voter not registered"
DuplicateElection == "Election already exists"
InvalidTimeRange == "Start time must be before end time"
EndTimeInPast == "End time must be in the future"
ElectionNotEditable == "Cannot modify active election"
InvalidMaxVotes == "Max votes must be greater than 0"
InvalidSeats == "Available seats must be greater than 0"
InvalidCandidateAddress == "Invalid candidate address"
AlreadyActive == "Election is already active"
TooEarly == "Election start time not reached"
NoPositions == "Election must have at least one position"
NotActive == "Election is not active"
CandidateNotActive == "Candidate is not active"
InvalidVoteHash == "Invalid vote hash"
ElectionStillActive == "Election must be ended first"
AlreadyPublished == "Results already published"
MissingRole == "AccessControl: account is missing role"
SystemPaused == "Pausable: paused"
NotPaused == "Pausable: not paused"

\* modifiers and requires run in order and the first that fails reverts the
\* call: the reason of `first` if it fails, else what `rest` gives
Then(first, rest) == IF first = OK THEN rest ELSE first

require(cond, reason) == IF cond THEN OK ELSE reason

\* ---------------------------------------------------- zero-valued storage
EmptyElection ==
    [startTime |-> 0, endTime |-> 0, isActive |-> FALSE, resultsPublished |-> FALSE,
     totalVotes |-> 0, creator |-> ZeroAddress, positionIds |-> <<>>]

EmptyPosition ==
    [maxVotesPerVoter |-> 0, availableSeats |-> 0, candidateIds |-> <<>>,
     hasVoted |-> {}, voteCount |-> [c \in CandidateIds |-> 0]]

EmptyCandidate == [candidateAddress |-> ZeroAddress, voteCount |-> 0, isActive |-> FALSE]

EmptyVote ==
    [electionId |-> "", positionId |-> "", candidateId |-> "", voter |-> ZeroAddress,
     timestamp |-> 0, voteHash |-> ZeroHash, isVerified |-> FALSE]

\* ------------------------------------------------- the browser's objects
Null == "null"
Idle == "idle"

\* calls of BlockchainManager.initialize() that can be in flight together
InitializeCalls == {"i1", "i2"}

\* what eth_requestAccounts and the accountsChanged event deliver
AccountsResults == {"rejected", "none", "one"}
AccountsEvents == {"none", "one"}

\* what /blockchain/contract-info/ answers
ContractInfoResults == {"address", "noAddress", "error"}

\* what estimateGas answers
GasResults == {"estimate", "rejected"}

\* BlockchainManager after its constructor, no listener on window.ethereum,
\* no call in flight, nothing submitted
NewBlockchainManager ==
    [provider |-> Null, signer |-> Null, contract |-> Null, isConnected |-> FALSE,
     accountsChangedListener |-> FALSE,
     initialize |-> [i \in InitializeCalls |-> Idle],
     castVoteOnBlockchain |-> Idle,
     voteResult |-> <<"none">>,
     submitted |-> {}]

\* the access tokens the server can issue, and the stored refresh tokens
Tokens == {"t1", "t2"}
RefreshTokens == {Null, "r1"}
Users == {"u1"}

EmptyLocalStorage == [comitia_token |-> Null, comitia_user |-> Null]

\* ComitiaAPI as its constructor builds it from localStorage; the calls in
\* flight of the page start idle
NewComitiaAPI(localStorage) ==
    [token |-> localStorage.comitia_token, user |-> localStorage.comitia_user,
     login |-> Idle, logout |-> Idle, refreshToken |-> Idle, reload |-> FALSE]

\* the page before any call: ComitiaAPI built from localStorage, no access
\* token known to be expired, no refresh attempt failed
NewSession(r) ==
    [api |-> NewComitiaAPI(EmptyLocalStorage),
     localStorage |-> EmptyLocalStorage,
     comitia_refresh_token |-> r,
     expired |-> {}, refreshFailed |-> {}]

\* ------------------------------------------------------------ constructor
InitContract ==
    /\ now = 0
    /\ roles = [r \in Roles |->
                  IF r \in {DEFAULT_ADMIN_ROLE, ELECTION_ADMIN_ROLE} THEN {Deployer} ELSE {}]
    /\ paused = FALSE
    /\ elections = [e \in ElectionIds |-> EmptyElection]
    /\ positions = [k \in ElectionIds \X StoredPositionIds |-> EmptyPosition]
    /\ candidates = [k \in ElectionIds \X StoredPositionIds \X CandidateIds |-> EmptyCandidate]
    /\ hasVoted = [k \in Addresses \X ElectionIds \X StoredPositionIds |-> FALSE]
    /\ votes = [h \in Hashes |-> EmptyVote]
    /\ registeredVoters = [a \in Addresses |-> FALSE]
    /\ electionExists = [e \in ElectionIds |-> FALSE]
    /\ electionIds = <<>>
    /\ voteHashes = <<>>
    /\ voteCastLog = <<>>

\* the page loaded in a browser whose localStorage holds no session yet
Init ==
    /\ InitContract
    /\ manager = NewBlockchainManager
    /\ session = NewSession(Null)

\* the same, with whatever the origin's localStorage holds under the key
\* comitia_refresh_token, which refreshToken() reads
InitSession ==
    /\ InitContract
    /\ manager = NewBlockchainManager
    /\ \E r \in RefreshTokens : session = NewSession(r)

\* --------------------------------------------------------------- modifiers
hasRole(role, account) == account \in roles[role]

\* onlyElectionAdmin as it would read if AUDITOR_ROLE passed it as well
onlyElectionAdminOrAuditor(sender) ==
    require(hasRole(ELECTION_ADMIN_ROLE, sender) \/ hasRole(AUDITOR_ROLE, sender),
            NotElectionAdmin)

onlyElectionAdmin(sender) == require(hasRole(ELECTION_ADMIN_ROLE, sender), NotElectionAdmin)

onlyRegisteredVoter(sender) == require(registeredVoters[sender], NotRegisteredVoter)

electionMustExist(electionId) == require(electionExists[electionId], ElectionNotFound)

\* votingMustBeActive as it would read without the endTime require
votingMustBeActiveNoEndCheck(electionId) ==
    Then(require(elections[electionId].isActive, VotingNotActive),
    Then(require(now >= elections[electionId].startTime, VotingNotStarted),
    OK))

votingMustBeActive(electionId) ==
    Then(require(elections[electionId].isActive, VotingNotActive),
    Then(require(now >= elections[electionId].startTime, VotingNotStarted),
    Then(require(now <= elections[electionId].endTime, VotingEnded),
    OK)))

\* hasNotVoted as it would read if it honoured the position's maxVotesPerVoter
hasNotVotedUpToMax(sender, electionId, positionId) ==
    require(Cardinality({i \in DOMAIN voteCastLog :
                            /\ voteCastLog[i].voter = sender
                            /\ voteCastLog[i].electionId = electionId
                            /\ voteCastLog[i].positionId = positionId})
               < positions[<<electionId, positionId>>].maxVotesPerVoter,
            AlreadyVoted)

\* castVote as it would read without the hasNotVoted modifier
hasNotVotedAbsent(sender, electionId, positionId) == OK

hasNotVoted(sender, electionId, positionId) ==
    require(~hasVoted[<<sender, electionId, positionId>>], AlreadyVoted)

whenNotPaused == require(~paused, SystemPaused)

whenPaused == require(paused, NotPaused)

onlyRole(role, sender) == require(hasRole(role, sender), MissingRole)

\* ------------------------------------------------------- voter registration
\* registerVoter as it would read without the "Voter already registered" require
registerVoterChecksNoDuplicateCheck(sender, voter) ==
    Then(onlyElectionAdmin(sender), OK)

registerVoterChecks(sender, voter) ==
    Then(onlyElectionAdmin(sender),
    Then(require(~registeredVoters[voter], AlreadyRegistered),
    OK))

\* registerVoter as it would read if a registration gave the voter a clean
\* HasVoted slate
registerVoterResettingHasVoted(sender, voter) ==
    /\ registerVoterChecks(sender, voter) = OK
    /\ registeredVoters' = [registeredVoters EXCEPT ![voter] = TRUE]
    /\ roles' = [roles EXCEPT ![VOTER_ROLE] = @ \cup {voter}]
    /\ hasVoted' = [k \in DOMAIN hasVoted |-> IF k[1] = voter THEN FALSE ELSE hasVoted[k]]
    /\ UNCHANGED <<manager, session, now, paused, elections, positions, candidates, votes,
                   electionExists, electionIds, voteHashes, voteCastLog>>

registerVoter(sender, voter) ==
    /\ registerVoterChecks(sender, voter) = OK
    /\ registeredVoters' = [registeredVoters EXCEPT ![voter] = TRUE]
    /\ roles' = [roles EXCEPT ![VOTER_ROLE] = @ \cup {voter}]
    /\ UNCHANGED <<manager, session, now, paused, elections, positions, candidates, hasVoted, votes,
                   electionExists, electionIds, voteHashes, voteCastLog>>

revokeVoterChecks(sender, voter) ==
    Then(onlyElectionAdmin(sender),
    Then(require(registeredVoters[voter], NotRegistered),
    OK))

\* revokeVoter as it would read if it also cleared the voter's HasVoted entries
revokeVoterClearingHasVoted(sender, voter) ==
    /\ revokeVoterChecks(sender, voter) = OK
    /\ registeredVoters' = [registeredVoters EXCEPT ![voter] = FALSE]
    /\ roles' = [roles EXCEPT ![VOTER_ROLE] = @ \ {voter}]
    /\ hasVoted' = [k \in DOMAIN hasVoted |-> IF k[1] = voter THEN FALSE ELSE hasVoted[k]]
    /\ UNCHANGED <<manager, session, now, paused, elections, positions, candidates, votes,
                   electionExists, electionIds, voteHashes, voteCastLog>>

revokeVoter(sender, voter) ==
    /\ revokeVoterChecks(sender, voter) = OK
    /\ registeredVoters' = [registeredVoters EXCEPT ![voter] = FALSE]
    /\ roles' = [roles EXCEPT ![VOTER_ROLE] = @ \ {voter}]
    /\ UNCHANGED <<manager, session, now, paused, elections, positions, candidates, hasVoted, votes,
                   electionExists, electionIds, voteHashes, voteCastLog>>

\* ------------------------------------------------------- election registry
\* createElection as it would read without the "Election already exists" require
createElectionChecksNoDuplicateCheck(sender, electionId, startTime, endTime) ==
    Then(onlyElectionAdmin(sender),
    Then(require(startTime < endTime, InvalidTimeRange),
    Then(require(endTime > now, EndTimeInPast),
    OK)))

createElectionChecks(sender, electionId, startTime, endTime) ==
    Then(onlyElectionAdmin(sender),
    Then(require(~electionExists[electionId], DuplicateElection),
    Then(require(startTime < endTime, InvalidTimeRange),
    Then(require(endTime > now, EndTimeInPast),
    OK))))

createElection(sender, electionId, startTime, endTime) ==
    /\ createElectionChecks(sender, electionId, startTime, endTime) = OK
    /\ elections' = [elections EXCEPT ![electionId] =
                        [@ EXCEPT !.startTime = startTime,
                                  !.endTime = endTime,
                                  !.isActive = FALSE,
                                  !.resultsPublished = FALSE,
                                  !.totalVotes = 0,
                                  !.creator = sender]]
    /\ electionExists' = [electionExists EXCEPT ![electionId] = TRUE]
    /\ electionIds' = Append(electionIds, electionId)
    /\ UNCHANGED <<manager, session, now, roles, paused, positions, candidates, hasVoted, votes,
                   registeredVoters, voteHashes, voteCastLog>>

\* addPositionChecks without the require on isActive
addPositionChecksNoActiveCheck(sender, electionId, maxVotesPerVoter, availableSeats) ==
    Then(onlyElectionAdmin(sender),
    Then(electionMustExist(electionId),
    Then(require(maxVotesPerVoter > 0, InvalidMaxVotes),
    Then(require(availableSeats > 0, InvalidSeats),
    OK))))

addPositionChecks(sender, electionId, maxVotesPerVoter, availableSeats) ==
    Then(onlyElectionAdmin(sender),
    Then(electionMustExist(electionId),
    Then(require(~elections[electionId].isActive, ElectionNotEditable),
    Then(require(maxVotesPerVoter > 0, InvalidMaxVotes),
    Then(require(availableSeats > 0, InvalidSeats),
    OK)))))

addPosition(sender, electionId, positionId, maxVotesPerVoter, availableSeats) ==
    /\ addPositionChecks(sender, electionId, maxVotesPerVoter, availableSeats) = OK
    /\ Len(elections[electionId].positionIds) < MaxPositionIds
    /\ positions' = [positions EXCEPT ![<<electionId, positionId>>] =
                        [@ EXCEPT !.maxVotesPerVoter = maxVotesPerVoter,
                                  !.availableSeats = availableSeats]]
    /\ elections' = [elections EXCEPT ![electionId].positionIds = Append(@, positionId)]
    /\ UNCHANGED <<manager, session, now, roles, paused, candidates, hasVoted, votes, registeredVoters,
                   electionExists, electionIds, voteHashes, voteCastLog>>

registerCandidateChecks(sender, electionId, candidateAddress) ==
    Then(onlyElectionAdmin(sender),
    Then(electionMustExist(electionId),
    Then(require(~elections[electionId].isActive, ElectionNotEditable),
    Then(require(candidateAddress # ZeroAddress, InvalidCandidateAddress),
    OK))))

registerCandidate(sender, electionId, positionId, candidateId, candidateAddress) ==
    /\ registerCandidateChecks(sender, electionId, candidateAddress) = OK
    /\ Len(positions[<<electionId, positionId>>].candidateIds) < MaxCandidateIds
    /\ candidates' = [candidates EXCEPT ![<<electionId, positionId, candidateId>>] =
                         [candidateAddress |-> candidateAddress,
                          voteCount |-> 0,
                          isActive |-> TRUE]]
    /\ positions' = [positions EXCEPT ![<<electionId, positionId>>].candidateIds =
                         Append(@, candidateId)]
    /\ UNCHANGED <<manager, session, now, roles, paused, elections, hasVoted, votes, registeredVoters,
                   electionExists, electionIds, voteHashes, voteCastLog>>

\* startElectionChecks without the require on positionIds.length
startElectionChecksNoPositionCheck(sender, electionId) ==
    Then(onlyElectionAdmin(sender),
    Then(electionMustExist(electionId),
    Then(require(~elections[electionId].isActive, AlreadyActive),
    Then(require(now >= elections[electionId].startTime, TooEarly),
    OK))))

startElectionChecks(sender, electionId) ==
    Then(onlyElectionAdmin(sender),
    Then(electionMustExist(electionId),
    Then(require(~elections[electionId].isActive, AlreadyActive),
    Then(require(now >= elections[electionId].startTime, TooEarly),
    Then(require(Len(elections[electionId].positionIds) > 0, NoPositions),
    OK)))))

startElection(sender, electionId) ==
    /\ startElectionChecks(sender, electionId) = OK
    /\ elections' = [elections EXCEPT ![electionId].isActive = TRUE]
    /\ UNCHANGED <<manager, session, now, roles, paused, positions, candidates, hasVoted, votes,
                   registeredVoters, electionExists, electionIds, voteHashes,
                   voteCastLog>>

endElectionChecks(sender, electionId) ==
    Then(onlyElectionAdmin(sender),
    Then(electionMustExist(electionId),
    Then(require(elections[electionId].isActive, NotActive),
    OK)))

endElection(sender, electionId) ==
    /\ endElectionChecks(sender, electionId) = OK
    /\ elections' = [elections EXCEPT ![electionId].isActive = FALSE]
    /\ UNCHANGED <<manager, session, now, roles, paused, positions, candidates, hasVoted, votes,
                   registeredVoters, electionExists, electionIds, voteHashes,
                   voteCastLog>>

publishResultsChecks(sender, electionId) ==
    Then(onlyElectionAdmin(sender),
    Then(electionMustExist(electionId),
    Then(require(~elections[electionId].isActive, ElectionStillActive),
    Then(require(~elections[electionId].resultsPublished, AlreadyPublished),
    OK))))

publishResults(sender, electionId) ==
    /\ publishResultsChecks(sender, electionId) = OK
    /\ elections' = [elections EXCEPT ![electionId].resultsPublished = TRUE]
    /\ UNCHANGED <<manager, session, now, roles, paused, positions, candidates, hasVoted, votes,
                   registeredVoters, electionExists, electionIds, voteHashes,
                   voteCastLog>>

\* ------------------------------------------------------------- vote ledger
\* nonReentrant never fails here: castVote makes no external call.
\* castVoteChecks without the require on candidate.isActive
castVoteChecksNoCandidateCheck(sender, electionId, positionId, candidateId, voteHash) ==
    Then(onlyRegisteredVoter(sender),
    Then(whenNotPaused,
    Then(electionMustExist(electionId),
    Then(votingMustBeActive(electionId),
    Then(hasNotVoted(sender, electionId, positionId),
    Then(require(voteHash # ZeroHash, InvalidVoteHash),
    OK))))))

castVoteChecks(sender, electionId, positionId, candidateId, voteHash) ==
    Then(onlyRegisteredVoter(sender),
    Then(whenNotPaused,
    Then(electionMustExist(electionId),
    Then(votingMustBeActive(electionId),
    Then(hasNotVoted(sender, electionId, positionId),
    Then(require(candidates[<<electionId, positionId, candidateId>>].isActive,
                 CandidateNotActive),
    Then(require(voteHash # ZeroHash, InvalidVoteHash),
    OK)))))))

VoteCastEvent(sender, electionId, positionId, candidateId, voteHash) ==
    [electionId |-> electionId, positionId |-> positionId, candidateId |-> candidateId,
     voter |-> sender, voteHash |-> voteHash, timestamp |-> now]

\* castVote as it would behave if a failing require of its body (candidate,
\* vote hash) did not undo the writes: only the modifiers guard the writes
castVoteCommittingBeforeRequires(sender, electionId, positionId, candidateId, voteHash) ==
    /\ Then(onlyRegisteredVoter(sender),
         Then(whenNotPaused,
         Then(electionMustExist(electionId),
         Then(votingMustBeActive(electionId),
         Then(hasNotVoted(sender, electionId, positionId),
         OK))))) = OK
    /\ votes' = [votes EXCEPT ![voteHash] =
                    [electionId |-> electionId, positionId |-> positionId,
                     candidateId |-> candidateId, voter |-> sender,
                     timestamp |-> now, voteHash |-> voteHash, isVerified |-> TRUE]]
    /\ hasVoted' = [hasVoted EXCEPT ![<<sender, electionId, positionId>>] = TRUE]
    /\ positions' = [positions EXCEPT
                        ![<<electionId, positionId>>].hasVoted = @ \cup {sender},
                        ![<<electionId, positionId>>].voteCount[candidateId] = @ + 1]
    /\ candidates' = [candidates EXCEPT
                         ![<<electionId, positionId, candidateId>>].voteCount = @ + 1]
    /\ elections' = [elections EXCEPT ![electionId].totalVotes = @ + 1]
    /\ voteHashes' = Append(voteHashes, voteHash)
    /\ voteCastLog' = Append(voteCastLog,
           VoteCastEvent(sender, electionId, positionId, candidateId, voteHash))
    /\ UNCHANGED <<manager, session, now, roles, paused, registeredVoters, electionExists, electionIds>>

castVote(sender, electionId, positionId, candidateId, voteHash) ==
    /\ castVoteChecks(sender, electionId, positionId, candidateId, voteHash) = OK
    /\ votes' = [votes EXCEPT ![voteHash] =
                    [electionId |-> electionId, positionId |-> positionId,
                     candidateId |-> candidateId, voter |-> sender,
                     timestamp |-> now, voteHash |-> voteHash, isVerified |-> TRUE]]
    /\ hasVoted' = [hasVoted EXCEPT ![<<sender, electionId, positionId>>] = TRUE]
    /\ positions' = [positions EXCEPT
                        ![<<electionId, positionId>>].hasVoted = @ \cup {sender},
                        ![<<electionId, positionId>>].voteCount[candidateId] = @ + 1]
    /\ candidates' = [candidates EXCEPT
                         ![<<electionId, positionId, candidateId>>].voteCount = @ + 1]
    /\ elections' = [elections EXCEPT ![electionId].totalVotes = @ + 1]
    /\ voteHashes' = Append(voteHashes, voteHash)
    /\ voteCastLog' = Append(voteCastLog,
           VoteCastEvent(sender, electionId, positionId, candidateId, voteHash))
    /\ UNCHANGED <<manager, session, now, roles, paused, registeredVoters, electionExists, electionIds>>

\* ------------------------------------------------------------ pause switch
\* pause as it would read if it were guarded by onlyRole(ELECTION_ADMIN_ROLE)
pauseChecksByElectionAdmin(sender) ==
    Then(onlyRole(ELECTION_ADMIN_ROLE, sender),
    Then(whenNotPaused,
    OK))

pauseChecks(sender) ==
    Then(onlyRole(DEFAULT_ADMIN_ROLE, sender),
    Then(whenNotPaused,
    OK))

pause(sender) ==
    /\ pauseChecks(sender) = OK
    /\ paused' = TRUE
    /\ UNCHANGED <<manager, session, now, roles, elections, positions, candidates, hasVoted, votes,
                   registeredVoters, electionExists, electionIds, voteHashes,
                   voteCastLog>>

unpauseChecks(sender) ==
    Then(onlyRole(DEFAULT_ADMIN_ROLE, sender),
    Then(whenPaused,
    OK))

unpause(sender) ==
    /\ unpauseChecks(sender) = OK
    /\ paused' = FALSE
    /\ UNCHANGED <<manager, session, now, roles, elections, positions, candidates, hasVoted, votes,
                   registeredVoters, electionExists, electionIds, voteHashes,
                   voteCastLog>>

\* --------------------------------------------- AccessControl (inherited)
\* every role's admin role is DEFAULT_ADMIN_ROLE: the contract never calls
\* _setRoleAdmin
getRoleAdmin(role) == DEFAULT_ADMIN_ROLE

grantRoleChecks(sender, role) == Then(onlyRole(getRoleAdmin(role), sender), OK)

grantRole(sender, role, account) ==
    /\ grantRoleChecks(sender, role) = OK
    /\ roles' = [roles EXCEPT ![role] = @ \cup {account}]
    /\ UNCHANGED <<manager, session, now, paused, elections, positions, candidates, hasVoted, votes,
                   registeredVoters, electionExists, electionIds, voteHashes,
                   voteCastLog>>

revokeRoleChecks(sender, role) == Then(onlyRole(getRoleAdmin(role), sender), OK)

revokeRole(sender, role, account) ==
    /\ revokeRoleChecks(sender, role) = OK
    /\ roles' = [roles EXCEPT ![role] = @ \ {account}]
    /\ UNCHANGED <<manager, session, now, paused, elections, positions, candidates, hasVoted, votes,
                   registeredVoters, electionExists, electionIds, voteHashes,
                   voteCastLog>>

\* ------------------------------------------------------------------- views
verifyVote(voteHash) ==
    IF votes[voteHash].voter = ZeroAddress THEN "Vote not found"
    ELSE [electionId |-> votes[voteHash].electionId,
          positionId |-> votes[voteHash].positionId,
          candidateId |-> votes[voteHash].candidateId,
          voter |-> votes[voteHash].voter,
          timestamp |-> votes[voteHash].timestamp,
          isVerified |-> votes[voteHash].isVerified]

getCandidateVoteCount(electionId, positionId, candidateId) ==
    candidates[<<electionId, positionId, candidateId>>].voteCount

\* what getElection returns (title and description left out)
getElection(electionId) ==
    IF electionMustExist(electionId) # OK THEN ElectionNotFound
    ELSE [startTime |-> elections[electionId].startTime,
          endTime |-> elections[electionId].endTime,
          isActive |-> elections[electionId].isActive,
          resultsPublished |-> elections[electionId].resultsPublished,
          totalVotes |-> elections[electionId].totalVotes,
          creator |-> elections[electionId].creator]

\* getElectionCount as it would read if it counted the active elections
getElectionCountOfActive == Cardinality({e \in ElectionIds : elections[e].isActive})

getElectionCount == Len(electionIds)

getTotalVotesCast == Len(voteHashes)

hasVoterVoted(voter, electionId, positionId) == hasVoted[<<voter, electionId, positionId>>]

\* ------------------------------------------------------------ time passes
Tick ==
    /\ now < MaxTime
    /\ now' = now + 1
    /\ UNCHANGED <<manager, session, storage>>

\* ------------------------------------------------------------ specification
Next ==
    \/ Tick
    \/ \E s \in AdminCallers, v \in VoterAddrs : registerVoter(s, v)
    \/ \E s \in AdminCallers, v \in VoterAddrs : revokeVoter(s, v)
    \/ \E s \in AdminCallers, e \in ElectionIds, t1 \in StartTimes, t2 \in EndTimes :
          createElection(s, e, t1, t2)
    \/ \E s \in AdminCallers, e \in ElectionIds, p \in PositionIds,
          m \in MaxVotesInputs, a \in SeatsInputs : addPosition(s, e, p, m, a)
    \/ \E s \in AdminCallers, e \in ElectionIds, p \in PositionIds, c \in CandidateIds,
          a \in CandidateAddrs : registerCandidate(s, e, p, c, a)
    \/ \E s \in AdminCallers, e \in ElectionIds : startElection(s, e)
    \/ \E s \in AdminCallers, e \in ElectionIds : endElection(s, e)
    \/ \E s \in AdminCallers, e \in ElectionIds : publishResults(s, e)
    \/ \E s \in VoterAddrs, e \in ElectionIds, p \in PositionIds, c \in CandidateIds,
          h \in Hashes : castVote(s, e, p, c, h)

Spec == Init /\ [][Next]_vars

\* The contract with its role and pause operations, on one candidate id and
\* one non-zero vote hash.
NextAccess ==
    \/ Tick
    \/ \E s \in AdminCallers, v \in VoterAddrs : registerVoter(s, v)
    \/ \E s \in AdminCallers, v \in VoterAddrs : revokeVoter(s, v)
    \/ \E s \in AdminCallers, e \in ElectionIds, t1 \in StartTimes, t2 \in EndTimes :
          createElection(s, e, t1, t2)
    \/ \E s \in AdminCallers, e \in ElectionIds, p \in PositionIds,
          m \in MaxVotesInputs, a \in SeatsInputs : addPosition(s, e, p, m, a)
    \/ \E s \in AdminCallers, e \in ElectionIds, p \in PositionIds,
          c \in AccessCandidateIds, a \in CandidateAddrs :
          registerCandidate(s, e, p, c, a)
    \/ \E s \in AdminCallers, e \in ElectionIds : startElection(s, e)
    \/ \E s \in AdminCallers, e \in ElectionIds : endElection(s, e)
    \/ \E s \in AdminCallers, e \in ElectionIds : publishResults(s, e)
    \/ \E s \in VoterAddrs, e \in ElectionIds, p \in PositionIds,
          c \in AccessCandidateIds, h \in AccessHashes : castVote(s, e, p, c, h)
    \/ \E s \in AdminCallers, r \in GrantableRoles, a \in GrantAccounts :
          grantRole(s, r, a)
    \/ \E s \in AdminCallers, r \in GrantableRoles, a \in GrantAccounts :
          revokeRole(s, r, a)
    \/ \E s \in AdminCallers : pause(s)
    \/ \E s \in AdminCallers : unpause(s)

SpecAccess == Init /\ [][NextAccess]_vars

\* The contract on two position ids, with one voter, one candidate id and
\* one non-zero vote hash.
NextPositions ==
    \/ Tick
    \/ \E s \in AdminCallers, v \in PositionsVoters : registerVoter(s, v)
    \/ \E s \in AdminCallers, v \in PositionsVoters : revokeVoter(s, v)
    \/ \E s \in AdminCallers, e \in ElectionIds, t1 \in StartTimes, t2 \in EndTimes :
          createElection(s, e, t1, t2)
    \/ \E s \in AdminCallers, e \in ElectionIds, p \in StoredPositionIds,
          m \in MaxVotesInputs, a \in SeatsInputs : addPosition(s, e, p, m, a)
    \/ \E s \in AdminCallers, e \in ElectionIds, p \in StoredPositionIds,
          c \in AccessCandidateIds, a \in CandidateAddrs :
          registerCandidate(s, e, p, c, a)
    \/ \E s \in AdminCallers, e \in ElectionIds : startElection(s, e)
    \/ \E s \in AdminCallers, e \in ElectionIds : endElection(s, e)
    \/ \E s \in AdminCallers, e \in ElectionIds : publishResults(s, e)
    \/ \E s \in PositionsVoters, e \in ElectionIds, p \in StoredPositionIds,
          c \in AccessCandidateIds, h \in AccessHashes : castVote(s, e, p, c, h)

SpecPositions == Init /\ [][NextPositions]_vars

\* ================================================================== claims
Admins == {a \in Addresses : hasRole(ELECTION_ADMIN_ROLE, a)}

\* the successful castVote calls so far of `voter` for (electionId, positionId)
CastsOf(voter, electionId, positionId) ==
    {i \in DOMAIN voteCastLog :
        /\ voteCastLog[i].voter = voter
        /\ voteCastLog[i].electionId = electionId
        /\ voteCastLog[i].positionId = positionId}

\* the stored VoteRecords: the hashes whose slot of `votes` is written
VoteRecords == {h \in Hashes : votes[h].voter # ZeroAddress}

\* castVote passes every guard that precedes hasNotVoted
VotingOpenFor(sender, electionId) ==
    /\ onlyRegisteredVoter(sender) = OK
    /\ whenNotPaused = OK
    /\ electionMustExist(electionId) = OK
    /\ votingMustBeActive(electionId) = OK

C2_DuplicateVoteHashRejected ==
    [][\A h \in VoteRecords :
          /\ ~(/\ Len(voteCastLog') = Len(voteCastLog) + 1
               /\ voteCastLog'[Len(voteCastLog')].voteHash = h)
          /\ votes'[h] = votes[h]]_vars

\* C3: every election's totalVotes is the number of stored VoteRecords of that
\* election.
C3_TotalVotesMatchesRecords ==
    \A e \in ElectionIds :
        elections[e].totalVotes =
            Cardinality({h \in VoteRecords : votes[h].electionId = e})

\* C4: every registered candidate's voteCount is the number of stored
\* VoteRecords that reference it.  Stated for the states in which no vote hash
\* was used twice, where every successful castVote still has its own record.
C4_CandidateVoteCountMatchesRecords ==
    (\A i, j \in DOMAIN voteHashes : voteHashes[i] = voteHashes[j] => i = j) =>
        \A e \in ElectionIds, p \in PositionIds, c \in CandidateIds :
            candidates[<<e, p, c>>].isActive =>
                getCandidateVoteCount(e, p, c) =
                    Cardinality({h \in VoteRecords :
                                    /\ votes[h].electionId = e
                                    /\ votes[h].positionId = p
                                    /\ votes[h].candidateId = c})

\* C5: verifyVote of the hash of every castVote that succeeded returns the
\* election, position, candidate, voter and time of that castVote.
C5_VerifyVoteRoundTrip ==
    \A i \in DOMAIN voteCastLog :
        verifyVote(voteCastLog[i].voteHash) =
            [electionId |-> voteCastLog[i].electionId,
             positionId |-> voteCastLog[i].positionId,
             candidateId |-> voteCastLog[i].candidateId,
             voter |-> voteCastLog[i].voter,
             timestamp |-> voteCastLog[i].timestamp,
             isVerified |-> TRUE]

\* The contract stores isActive and resultsPublished only, so an election that
\* was ended looks like one that was never started.  An election that is not
\* active and has votes has certainly been Active and was ended.
KnownEnded(e) ==
    /\ electionExists[e]
    /\ ~elections[e].isActive
    /\ elections[e].totalVotes > 0

\* C6: the lifecycle only moves forward: published results stay published, and
\* an election that was ended or whose results are published never becomes
\* Active again.
C6_LifecycleMonotonic ==
    [][\A e \in ElectionIds :
          /\ elections[e].resultsPublished => elections'[e].resultsPublished
          /\ (KnownEnded(e) \/ elections[e].resultsPublished) => ~elections'[e].isActive]_vars

\* C7: once results are published, the election's totalVotes and the voteCount
\* of each of its candidates never change.
C7_TalliesFrozenAfterPublish ==
    [][\A e \in ElectionIds :
          elections[e].resultsPublished =>
              /\ elections'[e].totalVotes = elections[e].totalVotes
              /\ \A p \in PositionIds, c \in CandidateIds :
                    candidates'[<<e, p, c>>].voteCount = candidates[<<e, p, c>>].voteCount]_vars

\* C8: the position list and the candidates of an election that was ended or
\* whose results are published do not change: addPosition and registerCandidate
\* succeed only in Created.
C8_NotEditableAfterEnd ==
    [][\A e \in ElectionIds :
          (KnownEnded(e) \/ elections[e].resultsPublished) =>
              /\ elections'[e].positionIds = elections[e].positionIds
              /\ \A p \in PositionIds :
                    positions'[<<e, p>>].candidateIds = positions[<<e, p>>].candidateIds]_vars

\* C9: while an election is Active, addPosition and registerCandidate by an
\* administrator revert with "Cannot modify active election" for every input:
\* no such call can take effect.
C9_ActiveElectionNotEditable ==
    \A e \in ElectionIds :
        elections[e].isActive =>
            \A s \in Admins, p \in PositionIds :
                /\ \A m \in MaxVotesInputs, a \in SeatsInputs :
                      /\ addPositionChecks(s, e, m, a) = ElectionNotEditable
                      /\ ~ENABLED addPosition(s, e, p, m, a)
                /\ \A c \in CandidateIds, a \in CandidateAddrs :
                      /\ registerCandidateChecks(s, e, a) = ElectionNotEditable
                      /\ ~ENABLED registerCandidate(s, e, p, c, a)

\* C9 witness: an Active election with votes cast, on which addPosition with
\* valid arguments is refused.
C9_Witness ==
    \E e \in ElectionIds :
        /\ elections[e].isActive
        /\ elections[e].totalVotes > 0
        /\ Len(elections[e].positionIds) < MaxPositionIds
        /\ addPositionChecks(Deployer, e, 2, 1) = ElectionNotEditable
        /\ registerCandidateChecks(Deployer, e, 4) = ElectionNotEditable

\* C10: every Active election has at least one position, and startElection on
\* an election without positions reverts, with "Election must have at least
\* one position" when it is not active and its start time is reached.
C10_ActiveHasPosition ==
    \A e \in ElectionIds :
        /\ elections[e].isActive => Len(elections[e].positionIds) > 0
        /\ (electionExists[e] /\ Len(elections[e].positionIds) = 0) =>
              \A s \in Admins :
                  /\ startElectionChecks(s, e) # OK
                  /\ (~elections[e].isActive /\ now >= elections[e].startTime) =>
                        startElectionChecks(s, e) = NoPositions

\* C10 witness: an election with candidates but no position, whose start time
\* is reached, is refused by startElection.
C10_Witness ==
    \E e \in ElectionIds, p \in PositionIds, c \in CandidateIds :
        /\ electionExists[e]
        /\ Len(elections[e].positionIds) = 0
        /\ candidates[<<e, p, c>>].isActive
        /\ startElectionChecks(Deployer, e) = NoPositions

\* an election that has certainly never been started: startElection needs a
\* position, and positionIds never shrinks
NeverStarted(electionId) ==
    /\ electionExists[electionId]
    /\ ~elections[electionId].isActive
    /\ Len(elections[electionId].positionIds) = 0

\* C11: publishResults by an administrator fails on an election that was
\* never started, on an Active election, and on an election whose results are
\* already published ("Results already published" once it is not active).
C11_PublishOnlyWhenEnded ==
    \A e \in ElectionIds, s \in Admins :
        /\ NeverStarted(e) => publishResultsChecks(s, e) # OK
        /\ (electionExists[e] /\ elections[e].isActive) =>
              publishResultsChecks(s, e) = ElectionStillActive
        /\ (electionExists[e] /\ ~elections[e].isActive /\ elections[e].resultsPublished) =>
              publishResultsChecks(s, e) = AlreadyPublished

\* the revert reasons of the votingMustBeActive modifier
VotingNotOpen == {VotingNotActive, VotingNotStarted, VotingEnded}

InWindow(electionId, timestamp) ==
    /\ elections[electionId].startTime <= timestamp
    /\ timestamp <= elections[electionId].endTime

C13_CastNeedsRoleAndRegistration ==
    \A s \in VoterAddrs, e \in ElectionIds, p \in PositionIds, c \in CandidateIds,
       h \in Hashes :
        /\ ~registeredVoters[s] => castVoteChecks(s, e, p, c, h) = NotRegisteredVoter
        /\ ~hasRole(VOTER_ROLE, s) => castVoteChecks(s, e, p, c, h) # OK

\* C14: an identity holds VOTER_ROLE only if its registration flag is set,
\* and a registerVoter or revokeVoter call that takes effect leaves the flag
\* and the role equal (both set, or both cleared).
C14_VoterRoleImpliesRegistered ==
    /\ \A a \in Addresses : hasRole(VOTER_ROLE, a) => registeredVoters[a]
    /\ \A s \in AdminCallers, v \in VoterAddrs :
          /\ ~ENABLED (registerVoter(s, v)
                         /\ ~(registeredVoters'[v] /\ v \in roles'[VOTER_ROLE]))
          /\ ~ENABLED (revokeVoter(s, v)
                         /\ (registeredVoters'[v] \/ v \in roles'[VOTER_ROLE]))

\* the outcome of every administrative call that does not touch the pause
\* flag, for every caller and argument of the input sets
AdminOutcomes ==
    [createElection |-> [x \in AdminCallers \X ElectionIds \X StartTimes \X EndTimes |->
                            createElectionChecks(x[1], x[2], x[3], x[4])],
     addPosition |-> [x \in AdminCallers \X ElectionIds \X MaxVotesInputs \X SeatsInputs |->
                            addPositionChecks(x[1], x[2], x[3], x[4])],
     registerCandidate |-> [x \in AdminCallers \X ElectionIds \X CandidateAddrs |->
                            registerCandidateChecks(x[1], x[2], x[3])],
     startElection |-> [x \in AdminCallers \X ElectionIds |-> startElectionChecks(x[1], x[2])],
     endElection |-> [x \in AdminCallers \X ElectionIds |-> endElectionChecks(x[1], x[2])],
     publishResults |-> [x \in AdminCallers \X ElectionIds |->
                            publishResultsChecks(x[1], x[2])]]

\* VoteRecords, HasVoted and the tallies
VoteState ==
    <<votes, hasVoted, voteHashes,
      [e \in ElectionIds |-> elections[e].totalVotes],
      [k \in DOMAIN candidates |-> candidates[k].voteCount],
      [k \in DOMAIN positions |-> <<positions[k].hasVoted, positions[k].voteCount>>]>>

\* C15: a step taken while the contract is paused casts no vote and changes
\* no VoteRecord, HasVoted entry or tally; and a step that flips the pause
\* flag changes the outcome of no administrative call.
C15_PauseStopsOnlyVoting ==
    [][/\ paused => (voteCastLog' = voteCastLog /\ VoteState' = VoteState)
       /\ (paused' # paused) => AdminOutcomes' = AdminOutcomes]_vars

\* C16: for a caller without DEFAULT_ADMIN_ROLE, an election administrator
\* included, pause() and unpause() revert with the missing-role reason and
\* cannot change the pause flag.
C16_PauseOnlyByRoot ==
    \A s \in Addresses :
        ~hasRole(DEFAULT_ADMIN_ROLE, s) =>
            /\ pauseChecks(s) = MissingRole
            /\ unpauseChecks(s) = MissingRole
            /\ ~ENABLED pause(s)
            /\ ~ENABLED unpause(s)

\* C16 witness: while the contract is paused, an account that holds
\* ELECTION_ADMIN_ROLE but not DEFAULT_ADMIN_ROLE is refused by unpause.
C16_Witness ==
    \E s \in Addresses :
        /\ hasRole(ELECTION_ADMIN_ROLE, s)
        /\ ~hasRole(DEFAULT_ADMIN_ROLE, s)
        /\ paused
        /\ unpauseChecks(s) = MissingRole
        /\ \E r \in Addresses : unpauseChecks(r) = OK

\* C17: no revokeVoter call changes a VoteRecord (what verifyVote reads), a
\* HasVoted entry or a tally.
C17_RevokeVoterKeepsVotes ==
    \A s \in AdminCallers, v \in VoterAddrs :
        ~ENABLED (/\ revokeVoter(s, v)
                  /\ (VoteState' # VoteState \/ voteCastLog' # voteCastLog))

\* C17 witness: a voter whose registration was revoked after voting; the
\* vote is still recorded under its hash, counted, and HasVoted is still set.
C17_Witness ==
    \E i \in DOMAIN voteCastLog :
        LET ev == voteCastLog[i] IN
        /\ ~registeredVoters[ev.voter]
        /\ hasVoted[<<ev.voter, ev.electionId, ev.positionId>>]
        /\ votes[ev.voteHash].voter = ev.voter
        /\ verifyVote(ev.voteHash).voter = ev.voter
        /\ getCandidateVoteCount(ev.electionId, ev.positionId, ev.candidateId) > 0
        /\ elections[ev.electionId].totalVotes > 0

\* C18: for a caller without ELECTION_ADMIN_ROLE, whatever other roles it
\* holds, every administrative call reverts with "Caller is not an election
\* admin" and cannot change the state.
C18_AdminOnly ==
    \A s \in Addresses :
        ~hasRole(ELECTION_ADMIN_ROLE, s) =>
            /\ \A v \in VoterAddrs :
                  /\ registerVoterChecks(s, v) = NotElectionAdmin
                  /\ revokeVoterChecks(s, v) = NotElectionAdmin
                  /\ ~ENABLED registerVoter(s, v)
                  /\ ~ENABLED revokeVoter(s, v)
            /\ \A e \in ElectionIds :
                  /\ \A t1 \in StartTimes, t2 \in EndTimes :
                        /\ createElectionChecks(s, e, t1, t2) = NotElectionAdmin
                        /\ ~ENABLED createElection(s, e, t1, t2)
                  /\ \A p \in PositionIds, m \in MaxVotesInputs, a \in SeatsInputs :
                        /\ addPositionChecks(s, e, m, a) = NotElectionAdmin
                        /\ ~ENABLED addPosition(s, e, p, m, a)
                  /\ \A p \in PositionIds, c \in CandidateIds, a \in CandidateAddrs :
                        /\ registerCandidateChecks(s, e, a) = NotElectionAdmin
                        /\ ~ENABLED registerCandidate(s, e, p, c, a)
                  /\ startElectionChecks(s, e) = NotElectionAdmin
                  /\ endElectionChecks(s, e) = NotElectionAdmin
                  /\ publishResultsChecks(s, e) = NotElectionAdmin
                  /\ ~ENABLED startElection(s, e)
                  /\ ~ENABLED endElection(s, e)
                  /\ ~ENABLED publishResults(s, e)

\* C18 witness: an account holding VOTER_ROLE and AUDITOR_ROLE but not
\* ELECTION_ADMIN_ROLE is refused an addPosition and a publishResults that
\* the deployer could make in the same state.
C18_Witness ==
    \E s \in Addresses, e \in ElectionIds :
        /\ hasRole(VOTER_ROLE, s)
        /\ hasRole(AUDITOR_ROLE, s)
        /\ ~hasRole(ELECTION_ADMIN_ROLE, s)
        /\ addPositionChecks(Deployer, e, 2, 1) = OK
        /\ publishResultsChecks(Deployer, e) = OK
        /\ addPositionChecks(s, e, 2, 1) = NotElectionAdmin
        /\ publishResultsChecks(s, e) = NotElectionAdmin

\* the election record createElection leaves: Created, no position, no vote
CreatedElection(sender, startTime, endTime) ==
    [EmptyElection EXCEPT !.startTime = startTime, !.endTime = endTime,
                          !.creator = sender]

\* C19: for an administrator, createElection takes effect exactly when the id
\* is unused, startTime < endTime and endTime > now; it then leaves the
\* election Created with no position and totalVotes = 0; on an id in use it
\* reverts with "Election already exists" and cannot change the election.
C19_CreateElection ==
    \A e \in ElectionIds, s \in Admins, t1 \in StartTimes, t2 \in EndTimes :
        /\ (ENABLED createElection(s, e, t1, t2)) <=>
              (~electionExists[e] /\ t1 < t2 /\ t2 > now)
        /\ ~ENABLED (/\ createElection(s, e, t1, t2)
                     /\ ~(/\ elections'[e] = CreatedElection(s, t1, t2)
                          /\ Len(elections'[e].positionIds) = 0
                          /\ elections'[e].totalVotes = 0
                          /\ ~elections'[e].isActive
                          /\ ~elections'[e].resultsPublished))
        /\ electionExists[e] =>
              /\ createElectionChecks(s, e, t1, t2) = DuplicateElection
              /\ ~ENABLED createElection(s, e, t1, t2)

\* C19 witness: an election with a position and a vote exists, and a
\* createElection on its id with a valid window reverts as a duplicate.
C19_Witness ==
    \E e \in ElectionIds :
        /\ electionExists[e]
        /\ Len(elections[e].positionIds) > 0
        /\ elections[e].totalVotes > 0
        /\ now < 1
        /\ createElectionChecks(Deployer, e, 0, 1) = DuplicateElection

\* C20: for an administrator, registerVoter on a registered identity reverts
\* with "Voter already registered" and revokeVoter on an unregistered one
\* with "Voter not registered", and neither can change the state; otherwise
\* registerVoter takes effect and sets the flag, revokeVoter takes effect and
\* clears it.
C20_RegisterRevoke ==
    \A s \in Admins, v \in VoterAddrs :
        IF registeredVoters[v]
        THEN /\ registerVoterChecks(s, v) = AlreadyRegistered
             /\ ~ENABLED registerVoter(s, v)
             /\ ENABLED revokeVoter(s, v)
             /\ ~ENABLED (revokeVoter(s, v) /\ registeredVoters'[v])
        ELSE /\ revokeVoterChecks(s, v) = NotRegistered
             /\ ~ENABLED revokeVoter(s, v)
             /\ ENABLED registerVoter(s, v)
             /\ ~ENABLED (registerVoter(s, v) /\ ~registeredVoters'[v])

\* C20 witness: one voter is registered, another has voted and was revoked;
\* registering the first again and revoking the second again both revert.
C20_Witness ==
    \E v, w \in VoterAddrs, e \in ElectionIds, p \in PositionIds :
        /\ registeredVoters[v]
        /\ ~registeredVoters[w]
        /\ hasVoted[<<w, e, p>>]
        /\ registerVoterChecks(Deployer, v) = AlreadyRegistered
        /\ revokeVoterChecks(Deployer, w) = NotRegistered

\* no element occurs twice in the sequence
NoDuplicates(seq) == \A i, j \in DOMAIN seq : seq[i] = seq[j] => i = j

\* C21: position ids are unique within each election's position list and
\* candidate ids are unique within each position's candidate list.
C21_IdsUniqueInScope ==
    /\ \A e \in ElectionIds : NoDuplicates(elections[e].positionIds)
    /\ \A e \in ElectionIds, p \in PositionIds :
          NoDuplicates(positions[<<e, p>>].candidateIds)

\* C22: a transaction runs as one step, so concurrent castVote calls execute
\* in some order.  Whenever two castVote calls of one voter for one
\* (election, position) with distinct vote hashes would both succeed, either
\* of them, run first, succeeds and leaves the other failing with "Already
\* voted for this position"; and two successful casts of one voter for one
\* position are never both recorded.
C22_ConcurrentCastsOneWins ==
    /\ \A v \in VoterAddrs, e \in ElectionIds, p \in PositionIds :
          Cardinality(CastsOf(v, e, p)) <= 1
    /\ \A v \in VoterAddrs, e \in ElectionIds, p \in PositionIds,
          c1, c2 \in CandidateIds, h1, h2 \in Hashes :
          (/\ h1 # h2
           /\ castVoteChecks(v, e, p, c1, h1) = OK
           /\ castVoteChecks(v, e, p, c2, h2) = OK) =>
              /\ ENABLED castVote(v, e, p, c1, h1)
              /\ ~ENABLED (/\ castVote(v, e, p, c1, h1)
                           /\ castVoteChecks(v, e, p, c2, h2)' # AlreadyVoted)

\* C22 witness: a voter has two valid attempts for one position (distinct
\* candidates, distinct hashes, maxVotesPerVoter = 2) and a vote of another
\* voter is already recorded; running one makes the other fail AlreadyVoted.
C22_Witness ==
    \E v \in VoterAddrs, e \in ElectionIds, p \in PositionIds :
        /\ voteCastLog # <<>>
        /\ positions[<<e, p>>].maxVotesPerVoter = 2
        /\ castVoteChecks(v, e, p, "C1", 170) = OK
        /\ castVoteChecks(v, e, p, "C2", 187) = OK
        /\ ENABLED (/\ castVote(v, e, p, "C1", 170)
                    /\ castVoteChecks(v, e, p, "C2", 187)' = AlreadyVoted)

\* the guards of castVote in the order the specification lists them
castVoteChecksPauseFirst(sender, electionId, positionId, candidateId, voteHash) ==
    Then(whenNotPaused,
    Then(onlyRegisteredVoter(sender),
    Then(electionMustExist(electionId),
    Then(votingMustBeActive(electionId),
    Then(hasNotVoted(sender, electionId, positionId),
    Then(require(candidates[<<electionId, positionId, candidateId>>].isActive,
                 CandidateNotActive),
    Then(require(voteHash # ZeroHash, InvalidVoteHash),
    OK)))))))

\* C23: castVote reports the error of the first failing guard in the order
\* pause, voter authorization, election existence, voting open, already
\* voted, candidate, vote hash; a call by an unregistered caller while the
\* contract is paused fails with the pause error.
C23_GuardOrderPauseFirst ==
    \A s \in VoterAddrs, e \in ElectionIds, p \in PositionIds, c \in CandidateIds,
       h \in Hashes :
        /\ castVoteChecks(s, e, p, c, h) = castVoteChecksPauseFirst(s, e, p, c, h)
        /\ (paused /\ ~registeredVoters[s]) => castVoteChecks(s, e, p, c, h) = SystemPaused

RegisteredCandidates(electionId, positionId) ==
    {positions[<<electionId, positionId>>].candidateIds[i] :
        i \in DOMAIN positions[<<electionId, positionId>>].candidateIds}

\* C25: the candidate of every successful castVote and of every VoteRecord is
\* registered under exactly that election and position and is active;
\* castVote naming a candidate id never registered there (registered under
\* another position or not at all) fails, with "Candidate is not active" when
\* every earlier guard passes.
C25_VotesNameRegisteredCandidates ==
    /\ \A i \in DOMAIN voteCastLog :
          LET ev == voteCastLog[i] IN
          /\ ev.candidateId \in RegisteredCandidates(ev.electionId, ev.positionId)
          /\ candidates[<<ev.electionId, ev.positionId, ev.candidateId>>].isActive
    /\ \A h \in VoteRecords :
          /\ votes[h].candidateId \in RegisteredCandidates(votes[h].electionId,
                                                            votes[h].positionId)
          /\ candidates[<<votes[h].electionId, votes[h].positionId,
                          votes[h].candidateId>>].isActive
    /\ \A s \in VoterAddrs, e \in ElectionIds, p \in StoredPositionIds,
          c \in CandidateIds, h \in Hashes :
          c \notin RegisteredCandidates(e, p) =>
              /\ castVoteChecks(s, e, p, c, h) # OK
              /\ (VotingOpenFor(s, e) /\ ~hasVoted[<<s, e, p>>]) =>
                    castVoteChecks(s, e, p, c, h) = CandidateNotActive

\* C25 witness: a voter has voted for candidate C1 of one position; C1 is not
\* registered under the other position, and the voter's vote for C1 there is
\* refused while voting is open.
C25_Witness ==
    \E s \in VoterAddrs, e \in ElectionIds, p, q \in StoredPositionIds :
        /\ p # q
        /\ \E i \in DOMAIN voteCastLog :
              /\ voteCastLog[i].positionId = q
              /\ voteCastLog[i].candidateId = "C1"
        /\ "C1" \notin RegisteredCandidates(e, p)
        /\ VotingOpenFor(s, e)
        /\ ~hasVoted[<<s, e, p>>]
        /\ castVoteChecks(s, e, p, "C1", 170) = CandidateNotActive

\* C26: an election that exists keeps existing, and getElection keeps
\* returning the same startTime, endTime and creator for it; getElectionCount
\* grows by one with every createElection that succeeds and never changes
\* otherwise (so it never decreases and counts the successful calls).
C26_ElectionsNeverDeleted ==
    [][/\ \A e \in ElectionIds :
             electionExists[e] =>
                 /\ electionExists'[e]
                 /\ getElection(e)'.startTime = getElection(e).startTime
                 /\ getElection(e)'.endTime = getElection(e).endTime
                 /\ getElection(e)'.creator = getElection(e).creator
       /\ getElectionCount' = getElectionCount +
             Cardinality({e \in ElectionIds : ~electionExists[e] /\ electionExists'[e]})]_vars

\* C26 witness: an election that went through start, votes, end and publish
\* is still returned with the window and creator of its createElection, and
\* is counted once.
C26_Witness ==
    \E e \in ElectionIds :
        /\ electionExists[e]
        /\ elections[e].resultsPublished
        /\ elections[e].totalVotes > 0
        /\ now = MaxTime
        /\ getElection(e).startTime = 0
        /\ getElection(e).endTime = 1
        /\ getElection(e).creator = Deployer
        /\ getElectionCount = 1

\* C27: hasVoterVoted is true for the (voter, election, position) of every
\* castVote that ever succeeded, whatever happened since; that voter's
\* castVote for that position fails, and if the voter is now revoked, being
\* registered again does not make any such castVote succeed.
C27_HasVotedMonotonic ==
    \A i \in DOMAIN voteCastLog :
        LET ev == voteCastLog[i] IN
        /\ hasVoterVoted(ev.voter, ev.electionId, ev.positionId)
        /\ \A c \in CandidateIds, h \in Hashes :
              castVoteChecks(ev.voter, ev.electionId, ev.positionId, c, h) # OK
        /\ ~registeredVoters[ev.voter] =>
              ~ENABLED (/\ registerVoter(Deployer, ev.voter)
                        /\ \E c \in CandidateIds, h \in Hashes :
                              castVoteChecks(ev.voter, ev.electionId, ev.positionId,
                                             c, h)' = OK)

\* C27 witness: a voter voted and was revoked while voting is still open;
\* registering the voter again leaves castVote for another active candidate
\* with an unused hash failing AlreadyVoted.
C27_Witness ==
    \E i \in DOMAIN voteCastLog, c \in CandidateIds, h \in Hashes \ {ZeroHash} :
        LET ev == voteCastLog[i] IN
        /\ ~registeredVoters[ev.voter]
        /\ votingMustBeActive(ev.electionId) = OK
        /\ c # ev.candidateId
        /\ candidates[<<ev.electionId, ev.positionId, c>>].isActive
        /\ h \notin VoteRecords
        /\ ENABLED (/\ registerVoter(Deployer, ev.voter)
                    /\ castVoteChecks(ev.voter, ev.electionId, ev.positionId, c, h)'
                          = AlreadyVoted)

\* the position ids added to the election with addPosition
AddedPositions(electionId) ==
    {elections[electionId].positionIds[i] : i \in DOMAIN elections[electionId].positionIds}

\* C28: the positionId of every VoteRecord and of every successful castVote
\* is in its election's position list.
C28_VotesNameAddedPositions ==
    /\ \A h \in VoteRecords : votes[h].positionId \in AddedPositions(votes[h].electionId)
    /\ \A i \in DOMAIN voteCastLog :
          voteCastLog[i].positionId \in AddedPositions(voteCastLog[i].electionId)

\* ------------------------------------------------------- BlockchainManager
\* JavaScript runs one task at a time: an async method runs without
\* interruption up to its next await, and other tasks run while it waits.
\* Each action below is one such uninterrupted piece.

NotConnectedError == "Blockchain not connected"

\* castVoteOnBlockchain's catch block wraps every error
VoteFailed(errorMessage) == <<"Blockchain vote failed: ", errorMessage>>

\* the guard at the head of castVoteOnBlockchain
castVoteOnBlockchainChecks ==
    require(manager.isConnected /\ manager.contract # Null, NotConnectedError)

\* disconnect()
Disconnected(m) ==
    [m EXCEPT !.provider = Null, !.signer = Null, !.contract = Null,
              !.isConnected = FALSE]

\* initialize() up to the await inside connectWallet(): the provider is
\* built and eth_requestAccounts is sent
initialize(i) ==
    /\ manager.initialize[i] = Idle
    /\ manager' = [manager EXCEPT !.provider = "Web3Provider",
                                  !.initialize[i] = "eth_requestAccounts"]
    /\ UNCHANGED <<session, now, storage>>

\* connectWallet() from the answer of eth_requestAccounts to the await of
\* signer.getAddress(); a rejection, no account, or a provider that is null
\* by now (getSigner of null) throws and initialize() rethrows
connectWallet(i, accounts) ==
    /\ manager.initialize[i] = "eth_requestAccounts"
    /\ manager' =
         IF accounts # "one" \/ manager.provider = Null
         THEN [manager EXCEPT !.initialize[i] = Idle]
         ELSE [manager EXCEPT !.signer = "Signer", !.isConnected = TRUE,
                              !.accountsChangedListener = TRUE,
                              !.initialize[i] = "getAddress"]
    /\ UNCHANGED <<session, now, storage>>

\* connectWallet() returns the address and initialize() goes on to
\* loadContractInfo(), which sends the request for the contract info
connectWalletReturns(i, resolved) ==
    /\ manager.initialize[i] = "getAddress"
    /\ manager' = [manager EXCEPT !.initialize[i] =
                       IF resolved THEN "contract-info" ELSE Idle]
    /\ UNCHANGED <<session, now, storage>>

\* loadContractInfo() from the answer of the backend: the contract is built
\* with the signer the manager holds at that moment
loadContractInfo(i, contractInfo) ==
    /\ manager.initialize[i] = "contract-info"
    /\ manager' =
         IF contractInfo # "address"
         THEN [manager EXCEPT !.initialize[i] = Idle]
         ELSE [manager EXCEPT !.contract = IF manager.signer = Null
                                           THEN "ContractWithoutSigner"
                                           ELSE "ContractWithSigner",
                              !.initialize[i] = Idle]
    /\ UNCHANGED <<session, now, storage>>

\* the accountsChanged listener registered by connectWallet()
accountsChanged(accounts) ==
    /\ manager.accountsChangedListener
    /\ manager' =
         IF accounts = "none" THEN Disconnected(manager)
         ELSE IF manager.provider = Null THEN manager
         ELSE [manager EXCEPT !.signer = "Signer"]
    /\ UNCHANGED <<session, now, storage>>

\* disconnect() called directly
disconnect ==
    /\ manager' = Disconnected(manager)
    /\ UNCHANGED <<session, now, storage>>

\* castVoteOnBlockchain() up to the await of estimateGas
castVoteOnBlockchain ==
    /\ manager.castVoteOnBlockchain = Idle
    /\ manager' =
         IF castVoteOnBlockchainChecks # OK
         THEN [manager EXCEPT !.voteResult = VoteFailed(castVoteOnBlockchainChecks)]
         ELSE [manager EXCEPT !.castVoteOnBlockchain = "estimateGas"]
    /\ UNCHANGED <<session, now, storage>>

\* castVoteOnBlockchain() from the answer of estimateGas: this.contract is
\* read again and its castVote is called, which submits the transaction;
\* ethers throws instead when the contract was built without a signer
castVoteOnBlockchainSubmits(gasEstimate) ==
    /\ manager.castVoteOnBlockchain = "estimateGas"
    /\ manager' =
         IF gasEstimate = "rejected"
         THEN [manager EXCEPT !.castVoteOnBlockchain = Idle,
                              !.voteResult = VoteFailed("estimateGas")]
         ELSE IF manager.contract = Null
         THEN [manager EXCEPT !.castVoteOnBlockchain = Idle,
                              !.voteResult = VoteFailed("TypeError")]
         ELSE IF manager.contract = "ContractWithoutSigner"
         THEN [manager EXCEPT !.castVoteOnBlockchain = Idle,
                              !.voteResult = VoteFailed("sending a transaction requires a signer")]
         ELSE [manager EXCEPT !.castVoteOnBlockchain = Idle,
                              !.voteResult = <<"submitted">>,
                              !.submitted = @ \cup
                                  {[isConnected |-> manager.isConnected,
                                    contract |-> manager.contract]}]
    /\ UNCHANGED <<session, now, storage>>

NextManager ==
    \/ \E i \in InitializeCalls : initialize(i)
    \/ \E i \in InitializeCalls, a \in AccountsResults : connectWallet(i, a)
    \/ \E i \in InitializeCalls, r \in BOOLEAN : connectWalletReturns(i, r)
    \/ \E i \in InitializeCalls, c \in ContractInfoResults : loadContractInfo(i, c)
    \/ \E a \in AccountsEvents : accountsChanged(a)
    \/ disconnect
    \/ castVoteOnBlockchain
    \/ \E g \in GasResults : castVoteOnBlockchainSubmits(g)

SpecManager == Init /\ [][NextManager]_vars

\* C29: castVoteOnBlockchain submits a transaction only in a state where
\* isConnected is true and contract is non-null, and while the manager is
\* disconnected (isConnected false or contract null, as disconnect() leaves
\* it until initialize() has connected the wallet and loaded the contract
\* again) a call fails with 'Blockchain not connected' and submits nothing.
C29_SubmitsOnlyConnected ==
    /\ \A s \in manager.submitted : s.isConnected /\ s.contract # Null
    /\ (~manager.isConnected \/ manager.contract = Null)
          => /\ castVoteOnBlockchainChecks = NotConnectedError
             /\ ~ENABLED (castVoteOnBlockchain /\ manager'.submitted # manager.submitted)
             /\ ~ENABLED (castVoteOnBlockchain /\ manager'.castVoteOnBlockchain # Idle)

\* -------------------------------------------------------------- ComitiaAPI
\* session.api is the ComitiaAPI object of the loaded page with its calls in
\* flight; localStorage outlives the page. session.expired holds the access
\* tokens the server has answered 401 to, session.refreshFailed those of them
\* the page held when a refresh attempt failed.

\* isAuthenticated()
isAuthenticated == session.api.token # Null /\ session.api.user # Null

\* the server never issues again a token it has rejected
ValidTokens == Tokens \ session.expired

\* what the server answers to a login or a refresh: an access token or an error
AccessResults == {Null} \cup Tokens

\* what handleAPIError is given
ErrorMessages == {"401 Unauthorized", "Request failed"}

\* the finally block of logout()
LoggedOut(s) ==
    [s EXCEPT !.api.token = Null, !.api.user = Null, !.api.logout = Idle,
              !.localStorage = EmptyLocalStorage]

\* the catch callback of handleAPIError: logout() runs up to the await of
\* its request, is not awaited, and window.location.reload() is called
RefreshFailed(s) ==
    [s EXCEPT !.api.logout = "request", !.api.reload = TRUE,
              !.refreshFailed = @ \cup ({s.api.token} \cap s.expired)]

\* login() up to the await of its request
login ==
    /\ session.api.login = Idle
    /\ session' = [session EXCEPT !.api.login = "request"]
    /\ UNCHANGED <<manager, now, storage>>

\* login() from the answer of the server
loginResponse(access, user) ==
    /\ session.api.login = "request"
    /\ access \in {Null} \cup ValidTokens
    /\ session' =
         IF access = Null
         THEN [session EXCEPT !.api.login = Idle]
         ELSE [session EXCEPT !.api.login = Idle,
                              !.api.token = access, !.api.user = user,
                              !.localStorage = [comitia_token |-> access,
                                                comitia_user |-> user]]
    /\ UNCHANGED <<manager, now, storage>>

\* logout() up to the await of its request
logout ==
    /\ session.api.logout = Idle
    /\ session' = [session EXCEPT !.api.logout = "request"]
    /\ UNCHANGED <<manager, now, storage>>

\* logout() from the answer of the server, success or error: the finally block
logoutFinally(ok) ==
    /\ session.api.logout = "request"
    /\ session' = LoggedOut(session)
    /\ UNCHANGED <<manager, now, storage>>

\* handleAPIError(error): on a 401 the token the page holds has been rejected
\* and refreshToken() is called; without a stored refresh token it throws at
\* once and the catch callback runs, else its request is sent
handleAPIError(message) ==
    /\ session.api.refreshToken = Idle
    /\ session' =
         IF message # "401 Unauthorized" THEN session
         ELSE LET s == [session EXCEPT !.expired = @ \cup ({session.api.token} \ {Null})]
              IN  IF s.comitia_refresh_token = Null
                  THEN RefreshFailed(s)
                  ELSE [s EXCEPT !.api.refreshToken = "request"]
    /\ UNCHANGED <<manager, now, storage>>

\* refreshToken() from the answer of the server
refreshTokenResponse(access) ==
    /\ session.api.refreshToken = "request"
    /\ access \in {Null} \cup ValidTokens
    /\ session' =
         IF access = Null
         THEN RefreshFailed([session EXCEPT !.api.refreshToken = Idle])
         ELSE [session EXCEPT !.api.refreshToken = Idle,
                              !.api.token = access,
                              !.localStorage.comitia_token = access]
    /\ UNCHANGED <<manager, now, storage>>

\* window.location.reload() takes effect: the page and its calls in flight
\* are discarded and api.js builds a new ComitiaAPI from localStorage
reload ==
    /\ session.api.reload
    /\ session' = [session EXCEPT !.api = NewComitiaAPI(session.localStorage)]
    /\ UNCHANGED <<manager, now, storage>>

NextSession ==
    \/ login
    \/ \E a \in AccessResults, u \in Users : loginResponse(a, u)
    \/ logout
    \/ \E ok \in BOOLEAN : logoutFinally(ok)
    \/ \E m \in ErrorMessages : handleAPIError(m)
    \/ \E a \in AccessResults : refreshTokenResponse(a)
    \/ reload

SpecSession == InitSession /\ [][NextSession]_vars

\* no call of the page in flight and no reload pending
Quiescent ==
    /\ session.api.login = Idle
    /\ session.api.logout = Idle
    /\ session.api.refreshToken = Idle
    /\ ~session.api.reload

\* C30: logout() ends with token and user cleared whatever the server
\* answered, and once the refresh attempt for a token the server rejected
\* with 401 has failed, the session does not settle (no call in flight, no
\* reload pending) authenticated with that token.
C30_NeverKeepsExpiredToken ==
    /\ \A ok \in BOOLEAN : ~ENABLED (logoutFinally(ok) /\ isAuthenticated')
    /\ (Quiescent /\ session.api.token \in session.refreshFailed) => ~isAuthenticated

====
